---------------------------- MODULE Spec2Model ----------------------------
(***************************************************************************)
(* A model of battesty: the BatteryMonitor (history store, retention,      *)
(* discharge-rate estimator, ETA), its JSON persistence and the window     *)
(* procedure's handlers that drive it.                                     *)
(*                                                                         *)
(* Time is counted in seconds.  An Option<T> is a sequence of length <= 1: *)
(* <<>> is None and <<x>> is Some(x).                                      *)
(***************************************************************************)
EXTENDS Integers, Sequences, FiniteSets, TLC

\* ------------------------------------------------------------- bounds
\* Successful samples taken in one run of the process.
MaxSamples == 1
\* Message boxes open at once (each runs a nested message loop).
MaxDialogs == 1
\* The successful samples of a run that grows the store past a cleanup pass.
MaxAppends == 102

\* ---------------------------------------------------- program constants
SecondsPerHour == 3600
\* battery.rs:104  `self.measurements.len() % 100 == 0`
CleanupEvery == 100
\* battery.rs:120  `.rev().take(10)`
WindowSize == 10
\* settings.rs:13-15
DefaultUpdateIntervalMs == 30000
DefaultRetentionHours == 168

\* The granularity of the modelled wall clock: one hour.
StepSeconds == SecondsPerHour
\* The values the wall clock takes.
Instants == {0, StepSeconds, 2 * StepSeconds}

Some(x) == <<x>>
None == <<>>

\* ------------------------------------------------------ data model
BatteryMeasurement(t, p, c, r) ==
    [timestamp |-> t, percentage |-> p, is_charging |-> c, discharge_rate |-> r]

AppSettings(u, h, s) ==
    [update_interval_ms |-> u, history_retention_hours |-> h,
     show_percentage_on_icon |-> s]

AppSettings_default == AppSettings(DefaultUpdateIntervalMs, DefaultRetentionHours, TRUE)

\* ------------------------------------------------------ arithmetic
Abs(x) == IF x < 0 THEN -x ELSE x

\* Division truncating toward zero (an `as i32` cast of a quotient), b > 0.
TruncDiv(a, b) == IF a >= 0 THEN a \div b ELSE -((-a) \div b)

RECURSIVE Gcd(_, _)
Gcd(a, b) == IF b = 0 THEN a ELSE Gcd(b, a % b)

\* A rational number n/d, d > 0, in lowest terms.
Frac(n, d) ==
    LET g == Gcd(Abs(n), d)
    IN  IF n = 0 THEN [n |-> 0, d |-> 1] ELSE [n |-> n \div g, d |-> d \div g]

FracAdd(x, y) == Frac(x.n * y.d + y.n * x.d, x.d * y.d)

\* ------------------------------------------------------ persistence
\* A file on disk: kind is "missing" (no such file), "unreadable" (the read
\* fails: permissions, invalid UTF-8) or "text"; a text file holds a JSON
\* array `body` of objects and is `complete` unless it was cut short.
File(k, c, b) == [kind |-> k, complete |-> c, body |-> b]
MissingFile == File("missing", FALSE, <<>>)
UnreadableFile == File("unreadable", FALSE, <<>>)

MeasurementFields == {"timestamp", "percentage", "is_charging", "discharge_rate"}

\* chrono's serde form of DateTime<Local>: a date-time text, here the hour
\* and the second within the hour.
TimestampToText(t) == [h |-> t \div SecondsPerHour, s |-> t % SecondsPerHour]

TimestampFromText(x) == x.h * SecondsPerHour + x.s

\* A serializer that writes discharge_rate in percent per hour, without the
\* x100 fixed-point scaling the reader expects.
MeasurementToJson_unscaled(m) ==
    [timestamp |-> TimestampToText(m.timestamp), percentage |-> m.percentage,
     is_charging |-> m.is_charging, discharge_rate |-> m.discharge_rate \div 100]

\* #[derive(Serialize)] on BatteryMeasurement
MeasurementToJson(m) ==
    [timestamp |-> TimestampToText(m.timestamp), percentage |-> m.percentage,
     is_charging |-> m.is_charging, discharge_rate |-> m.discharge_rate]

\* #[derive(Deserialize)] on BatteryMeasurement accepts an object that has
\* every field with a value of the field's type (u8, i32, a valid time).
JsonIsMeasurement(o) ==
    /\ MeasurementFields \subseteq DOMAIN o
    /\ o.percentage \in 0..255
    /\ o.discharge_rate \in -2147483647..2147483647
    /\ o.timestamp.h >= 0
    /\ o.timestamp.s \in 0..(SecondsPerHour - 1)

MeasurementFromJson(o) ==
    BatteryMeasurement(TimestampFromText(o.timestamp), o.percentage,
                       o.is_charging, o.discharge_rate)

\* serde_json::to_string(&self.measurements)
to_string(ms) == File("text", TRUE, [i \in 1..Len(ms) |-> MeasurementToJson(ms[i])])

\* A lenient parser that keeps the objects that match and skips the rest.
from_str_lenient(f) ==
    LET good == SelectSeq(f.body, JsonIsMeasurement)
    IN  Some([i \in 1..Len(good) |-> MeasurementFromJson(good[i])])

\* serde_json::from_str::<VecDeque<BatteryMeasurement>>(..).ok()
from_str(f) ==
    IF f.complete /\ \A i \in 1..Len(f.body) : JsonIsMeasurement(f.body[i])
    THEN Some([i \in 1..Len(f.body) |-> MeasurementFromJson(f.body[i])])
    ELSE None

\* std::fs::read_to_string(&path).ok()
read_to_string(f) == IF f.kind = "text" THEN Some(f) ELSE None

load_history(f) ==
    LET text == read_to_string(f)
        parsed == IF text = None THEN None ELSE from_str(text[1])
    IN  IF parsed = None THEN <<>> ELSE parsed[1]

\* A write that appends to what the file holds.
fs_write_appending(old, json, outcome) ==
    CASE outcome = "ok" -> [json EXCEPT !.body = old.body \o json.body]
      [] outcome = "open_failed" -> old
      [] outcome = "write_failed" -> File("text", FALSE, <<>>)

\* What a write of `json` leaves on disk.  std::fs::write creates (truncates)
\* the file and then writes: "ok" writes all of it, "open_failed" leaves the
\* old file, "write_failed" leaves a truncated file.
fs_write(old, json, outcome) ==
    CASE outcome = "ok" -> json
      [] outcome = "open_failed" -> old
      [] outcome = "write_failed" -> File("text", FALSE, <<>>)

WriteOutcomes == {"ok", "open_failed", "write_failed"}

\* A save that unwraps the write's result: a failed write panics.
save_history_unwrap(ms, old, outcome) ==
    [file |-> fs_write(old, to_string(ms), outcome), panicked |-> outcome # "ok"]

\* BatteryMonitor::save_history: the file it leaves and whether it panicked.
save_history(ms, old, outcome) ==
    [file |-> fs_write(old, to_string(ms), outcome), panicked |-> FALSE]

\* ------------------------------------------------------ settings
SettingsFields == {"update_interval_ms", "history_retention_hours",
                   "show_percentage_on_icon"}

\* #[derive(Deserialize)] on AppSettings: every field is required (the u32
\* fields are checked up to 2^31 - 1, the largest integer of the model).
JsonIsSettings(o) ==
    /\ SettingsFields \subseteq DOMAIN o
    /\ o.update_interval_ms \in 0..2147483647
    /\ o.history_retention_hours \in 0..2147483647

\* A load that falls back to the zero value of every field.
AppSettings_load_zeroed(f) ==
    IF /\ f.kind = "text" /\ f.complete /\ Len(f.body) = 1
       /\ JsonIsSettings(f.body[1])
    THEN AppSettings(f.body[1].update_interval_ms,
                     f.body[1].history_retention_hours,
                     f.body[1].show_percentage_on_icon)
    ELSE AppSettings(0, 0, FALSE)

\* AppSettings::load; a settings file holds one JSON object, body[1].
AppSettings_load(f) ==
    IF /\ f.kind = "text" /\ f.complete /\ Len(f.body) = 1
       /\ JsonIsSettings(f.body[1])
    THEN AppSettings(f.body[1].update_interval_ms,
                     f.body[1].history_retention_hours,
                     f.body[1].show_percentage_on_icon)
    ELSE AppSettings_default

\* ------------------------------------------------------ retention
\* BatteryMonitor::cleanup_old_measurements with Local::now() = now.
Cutoff(now, hours) == now - hours * SecondsPerHour

\* A cleanup that also evicts the Measurement taken exactly at the cutoff.
pop_while_old_inclusive(ms, cutoff) ==
    LET stops == {i \in 1..Len(ms) : ~(ms[i].timestamp <= cutoff)}
        first == IF stops = {} THEN Len(ms) + 1
                 ELSE CHOOSE i \in stops : \A j \in stops : i <= j
    IN  SubSeq(ms, first, Len(ms))

\* The while-let loop of cleanup_old_measurements: it pops the front while
\* the front's timestamp is below the cutoff, so what it leaves starts at
\* the first Measurement at which it breaks.
pop_while_old(ms, cutoff) ==
    LET stops == {i \in 1..Len(ms) : ~(ms[i].timestamp < cutoff)}
        first == IF stops = {} THEN Len(ms) + 1
                 ELSE CHOOSE i \in stops : \A j \in stops : i <= j
    IN  SubSeq(ms, first, Len(ms))

cleanup_old_measurements(ms, now, hours) == pop_while_old(ms, Cutoff(now, hours))

\* ------------------------------------------------------ estimator
Min(a, b) == IF a <= b THEN a ELSE b

\* The whole store, newest first.
Recent_whole_store(ms) == [i \in 1..Len(ms) |-> ms[Len(ms) - i + 1]]

\* self.measurements.iter().rev().take(10).collect()
Recent(ms) == [i \in 1..Min(Len(ms), WindowSize) |-> ms[Len(ms) - i + 1]]

\* (a - b).num_seconds(): whole seconds; the model's instants are whole seconds.
num_seconds(a, b) == a - b

\* A loop that counts the pairs of charging samples too.
RECURSIVE RateLoop_ignores_charging(_, _, _)
RateLoop_ignores_charging(recent, i, acc) ==
    IF i > Len(recent) - 1 THEN acc
    ELSE LET time_diff == num_seconds(recent[i].timestamp, recent[i + 1].timestamp)
             percentage_diff == recent[i + 1].percentage - recent[i].percentage
             rate == Frac(percentage_diff * SecondsPerHour, IF time_diff > 0 THEN time_diff ELSE 1)
         IN  IF time_diff > 0
             THEN RateLoop_ignores_charging(recent, i + 1,
                           [total |-> FracAdd(acc.total, rate), count |-> acc.count + 1])
             ELSE RateLoop_ignores_charging(recent, i + 1, acc)

\* A loop that subtracts the older percentage from the newer one.
RECURSIVE RateLoop_newer_minus_older(_, _, _)
RateLoop_newer_minus_older(recent, i, acc) ==
    IF i > Len(recent) - 1 THEN acc
    ELSE LET time_diff == num_seconds(recent[i].timestamp, recent[i + 1].timestamp)
             percentage_diff == recent[i].percentage - recent[i + 1].percentage
             rate == Frac(percentage_diff * SecondsPerHour, IF time_diff > 0 THEN time_diff ELSE 1)
         IN  IF time_diff > 0 /\ ~recent[i].is_charging
             THEN RateLoop_newer_minus_older(recent, i + 1,
                           [total |-> FracAdd(acc.total, rate), count |-> acc.count + 1])
             ELSE RateLoop_newer_minus_older(recent, i + 1, acc)

\* The loop of estimate_discharge_rate from index i on; acc is (total_rate, count).
RECURSIVE RateLoop(_, _, _)
RateLoop(recent, i, acc) ==
    IF i > Len(recent) - 1 THEN acc
    ELSE LET time_diff == num_seconds(recent[i].timestamp, recent[i + 1].timestamp)
             percentage_diff == recent[i + 1].percentage - recent[i].percentage
             rate == Frac(percentage_diff * SecondsPerHour, IF time_diff > 0 THEN time_diff ELSE 1)
         IN  IF time_diff > 0 /\ ~recent[i].is_charging
             THEN RateLoop(recent, i + 1,
                           [total |-> FracAdd(acc.total, rate), count |-> acc.count + 1])
             ELSE RateLoop(recent, i + 1, acc)

\* An estimator that trusts the rates stored with the samples of the window.
estimate_discharge_rate_from_stored(ms) ==
    IF Len(ms) < 2 THEN 0
    ELSE LET recent == Recent(ms)
             nonzero == {i \in 1..Len(recent) : recent[i].discharge_rate # 0}
         IN  IF nonzero = {} THEN 0
             ELSE recent[CHOOSE i \in nonzero : \A j \in nonzero : i <= j].discharge_rate

estimate_discharge_rate(ms) ==
    IF Len(ms) < 2 THEN 0
    ELSE LET acc == RateLoop(Recent(ms), 1, [total |-> Frac(0, 1), count |-> 0])
         IN  IF acc.count > 0
             THEN TruncDiv(acc.total.n * 100, acc.total.d * acc.count)
             ELSE 0

\* An ETA text: `text` is a fixed message or a duration pattern filled with
\* h and m, followed by `suffix`.
Eta(text, h, m, suffix) == [text |-> text, h |-> h, m |-> m, suffix |-> suffix]

\* BatteryMonitor::format_time (minutes >= 0)
format_time(minutes) ==
    LET hours == minutes \div 60
        mins == minutes % 60
    IN  IF hours > 0 THEN Eta("{}h {}m", hours, mins, "") ELSE Eta("{}m", 0, mins, "")

\* The percentages the host presents on battery in this model, and for each
\* the rates at which ((percentage as f64 / rate as f64) * 100.0) * 60.0,
\* each operation rounded to the nearest double, lies just below the whole
\* number percentage * 6000 / rate.  At every other rate the double
\* truncates to the same whole number as the exact quotient.
F64RoundsBelow ==
    [p \in {0, 40, 45, 50} |->
        CASE p = 0 -> {}
          [] p = 40 -> {15, 30, 60, 120, 240, 480, 960, 1920}
          [] p = 45 -> {135, 270, 540, 625, 1080, 1250, 2160, 2500, 5000, 10000}
          [] p = 50 -> {75, 150, 300, 600, 1200, 2400}]

\* (hours_remaining * 60.0) as i32 for a rate above 0: the double, truncated.
eta_minutes(percentage, rate) ==
    LET exact == (percentage * 6000) \div rate
    IN  IF percentage \in DOMAIN F64RoundsBelow /\ rate \in F64RoundsBelow[percentage]
        THEN exact - 1
        ELSE exact

\* An ETA that takes the hours remaining for the minutes.
calculate_eta_hours_as_minutes(ms, percentage, is_charging) ==
    IF is_charging
    THEN LET remaining == 100 - percentage
             minutes == (remaining * 2) \div 3
         IN  IF remaining <= 0 THEN Eta("Fully charged", 0, 0, "")
             ELSE [format_time(minutes) EXCEPT !.suffix = " until full"]
    ELSE LET rate == estimate_discharge_rate(ms)
             minutes == IF rate > 0 THEN (percentage * 100) \div Abs(rate) ELSE 0
         IN  IF rate <= 0 THEN Eta("Calculating...", 0, 0, "")
             ELSE IF minutes < 1 THEN Eta("< 1 min", 0, 0, "")
             ELSE format_time(minutes)

\* An ETA that reports "Calculating..." for a rate of 0 only and takes the
\* magnitude of a negative rate.
calculate_eta_by_magnitude(ms, percentage, is_charging) ==
    IF is_charging
    THEN LET remaining == 100 - percentage
             minutes == (remaining * 2) \div 3
         IN  IF remaining <= 0 THEN Eta("Fully charged", 0, 0, "")
             ELSE [format_time(minutes) EXCEPT !.suffix = " until full"]
    ELSE LET rate == estimate_discharge_rate(ms)
             minutes == IF rate # 0 THEN eta_minutes(percentage, Abs(rate)) ELSE 0
         IN  IF rate = 0 THEN Eta("Calculating...", 0, 0, "")
             ELSE IF minutes < 1 THEN Eta("< 1 min", 0, 0, "")
             ELSE format_time(minutes)

\* An ETA that reports "Fully charged" above 100 % only.
calculate_eta_full_above_100(ms, percentage, is_charging) ==
    IF is_charging
    THEN LET remaining == 100 - percentage
             minutes == (remaining * 2) \div 3
         IN  IF remaining < 0 THEN Eta("Fully charged", 0, 0, "")
             ELSE [format_time(minutes) EXCEPT !.suffix = " until full"]
    ELSE LET rate == estimate_discharge_rate(ms)
             minutes == IF rate > 0 THEN eta_minutes(percentage, Abs(rate)) ELSE 0
         IN  IF rate <= 0 THEN Eta("Calculating...", 0, 0, "")
             ELSE IF minutes < 1 THEN Eta("< 1 min", 0, 0, "")
             ELSE format_time(minutes)

\* BatteryMonitor::calculate_eta; (remaining / 1.5) as i32 is remaining * 2
\* div 3 for every remaining in 1..100.
calculate_eta(ms, percentage, is_charging) ==
    IF is_charging
    THEN LET remaining == 100 - percentage
             minutes == (remaining * 2) \div 3
         IN  IF remaining <= 0 THEN Eta("Fully charged", 0, 0, "")
             ELSE [format_time(minutes) EXCEPT !.suffix = " until full"]
    ELSE LET rate == estimate_discharge_rate(ms)
             minutes == IF rate > 0 THEN eta_minutes(percentage, Abs(rate)) ELSE 0
         IN  IF rate <= 0 THEN Eta("Calculating...", 0, 0, "")
             ELSE IF minutes < 1 THEN Eta("< 1 min", 0, 0, "")
             ELSE format_time(minutes)

\* battery.rs:183, 189, 192
DegradationMinSamples == 100
FullCharge == 100
MinFullCharges == 2

\* A degradation estimate that counts a store of exactly 100 samples as too
\* short.
calculate_annual_degradation_over_100(ms) ==
    IF Len(ms) <= DegradationMinSamples THEN Frac(0, 1)
    ELSE LET IsFull(m) == m.percentage = FullCharge
             full_charges == SelectSeq(ms, IsFull)
         IN  IF Len(full_charges) < MinFullCharges THEN Frac(0, 1) ELSE Frac(5, 2)

\* BatteryMonitor::calculate_annual_degradation; the f64 results 0.0 and 2.5
\* are the rationals 0/1 and 5/2.
calculate_annual_degradation(ms) ==
    IF Len(ms) < DegradationMinSamples THEN Frac(0, 1)
    ELSE LET IsFull(m) == m.percentage = FullCharge
             full_charges == SelectSeq(ms, IsFull)
         IN  IF Len(full_charges) < MinFullCharges THEN Frac(0, 1) ELSE Frac(5, 2)

\* format!("{:.1}", x / 100.0) for x >= 0 in hundredths: the tenths printed.
\* A value halfway between two tenths goes to the even one here; in f64 its
\* binary expansion decides.
OneDecimal(x) ==
    LET q == x \div 10
        r == x % 10
    IN  IF r > 5 \/ (r = 5 /\ q % 2 = 1) THEN q + 1 ELSE q

\* first.timestamp.format("%Y-%m-%d %H:%M"): the minute of the timestamp.
FormatMinute(t) == t \div 60

\* BatteryMonitor::get_detailed_info: the values the report text is built from.
get_detailed_info(ms, percentage, is_charging) ==
    [percentage |-> percentage,
     state |-> IF is_charging THEN "Charging" ELSE "Discharging",
     discharge_rate |-> OneDecimal(Abs(estimate_discharge_rate(ms))),
     measurements_count |-> Len(ms),
     degradation |-> calculate_annual_degradation(ms),
     since |-> IF ms # <<>> THEN Some(FormatMinute(Head(ms).timestamp)) ELSE None]

\* ------------------------------------------------------ the monitor
\* GetSystemPowerStatus: whether the call succeeded and, if so, the fields read.
PowerStatus(ok, pct, ac) == [ok |-> ok, BatteryLifePercent |-> pct, ACLineStatus |-> ac]

PowerStatuses ==
    {PowerStatus(FALSE, 0, 0), PowerStatus(TRUE, 40, 0), PowerStatus(TRUE, 50, 1)}

\* A sample that estimates the rate after the push, so that the new sample
\* contributes to its own stored rate.
get_battery_status_rate_after_push(ms, hours, status, now1, now2) ==
    IF ~status.ok
    THEN [measurements |-> ms, result |-> None, built |-> None, cleaned |-> None]
    ELSE LET percentage == status.BatteryLifePercent
             is_charging == (status.ACLineStatus = 1)
             draft == BatteryMeasurement(now1, percentage, is_charging, 0)
             measurement == [draft EXCEPT !.discharge_rate =
                                estimate_discharge_rate(Append(ms, draft))]
             pushed == Append(ms, measurement)
             due == (Len(pushed) % CleanupEvery = 0)
             kept == IF due THEN cleanup_old_measurements(pushed, now2, hours)
                     ELSE pushed
         IN  [measurements |-> kept,
              result |-> Some([percentage |-> percentage,
                               eta |-> calculate_eta(kept, percentage, is_charging),
                               is_charging |-> is_charging]),
              built |-> Some(measurement),
              cleaned |-> IF due THEN Some(Cutoff(now2, hours)) ELSE None]

\* A sample that records the zeroed SYSTEM_POWER_STATUS when the query fails.
get_battery_status_push_on_failure(ms, hours, status, now1, now2) ==
    IF ~status.ok
    THEN [measurements |-> Append(ms, BatteryMeasurement(now1, 0, FALSE,
                                                         estimate_discharge_rate(ms))),
          result |-> None, built |-> None, cleaned |-> None]
    ELSE LET percentage == status.BatteryLifePercent
             is_charging == (status.ACLineStatus = 1)
             measurement == BatteryMeasurement(now1, percentage, is_charging,
                                               estimate_discharge_rate(ms))
             pushed == Append(ms, measurement)
             due == (Len(pushed) % CleanupEvery = 0)
             kept == IF due THEN cleanup_old_measurements(pushed, now2, hours)
                     ELSE pushed
         IN  [measurements |-> kept,
              result |-> Some([percentage |-> percentage,
                               eta |-> calculate_eta(kept, percentage, is_charging),
                               is_charging |-> is_charging]),
              built |-> Some(measurement),
              cleaned |-> IF due THEN Some(Cutoff(now2, hours)) ELSE None]

\* A sample that runs the cleanup pass every time.
get_battery_status_cleans_always(ms, hours, status, now1, now2) ==
    IF ~status.ok
    THEN [measurements |-> ms, result |-> None, built |-> None, cleaned |-> None]
    ELSE LET percentage == status.BatteryLifePercent
             is_charging == (status.ACLineStatus = 1)
             measurement == BatteryMeasurement(now1, percentage, is_charging,
                                               estimate_discharge_rate(ms))
             pushed == Append(ms, measurement)
             due == TRUE
             kept == IF due THEN cleanup_old_measurements(pushed, now2, hours)
                     ELSE pushed
         IN  [measurements |-> kept,
              result |-> Some([percentage |-> percentage,
                               eta |-> calculate_eta(kept, percentage, is_charging),
                               is_charging |-> is_charging]),
              built |-> Some(measurement),
              cleaned |-> IF due THEN Some(Cutoff(now2, hours)) ELSE None]

\* A sample that runs the cleanup pass when the store holds 100 samples and
\* at no other length.
get_battery_status_cleans_once(ms, hours, status, now1, now2) ==
    IF ~status.ok
    THEN [measurements |-> ms, result |-> None, built |-> None, cleaned |-> None]
    ELSE LET percentage == status.BatteryLifePercent
             is_charging == (status.ACLineStatus = 1)
             measurement == BatteryMeasurement(now1, percentage, is_charging,
                                               estimate_discharge_rate(ms))
             pushed == Append(ms, measurement)
             due == (Len(pushed) = CleanupEvery)
             kept == IF due THEN cleanup_old_measurements(pushed, now2, hours)
                     ELSE pushed
         IN  [measurements |-> kept,
              result |-> Some([percentage |-> percentage,
                               eta |-> calculate_eta(kept, percentage, is_charging),
                               is_charging |-> is_charging]),
              built |-> Some(measurement),
              cleaned |-> IF due THEN Some(Cutoff(now2, hours)) ELSE None]

\* BatteryMonitor::get_battery_status (DEBUG_MODE = false) on the store ms with
\* retention `hours`; now1 is the clock read for the timestamp and now2 the
\* clock read by the cleanup pass.  `built` is the Measurement constructed and
\* `cleaned` the cutoff of the cleanup pass, if one ran.
get_battery_status(ms, hours, status, now1, now2) ==
    IF ~status.ok
    THEN [measurements |-> ms, result |-> None, built |-> None, cleaned |-> None]
    ELSE LET percentage == status.BatteryLifePercent
             is_charging == (status.ACLineStatus = 1)
             measurement == BatteryMeasurement(now1, percentage, is_charging,
                                               estimate_discharge_rate(ms))
             pushed == Append(ms, measurement)
             due == (Len(pushed) % CleanupEvery = 0)
             kept == IF due THEN cleanup_old_measurements(pushed, now2, hours)
                     ELSE pushed
         IN  [measurements |-> kept,
              result |-> Some([percentage |-> percentage,
                               eta |-> calculate_eta(kept, percentage, is_charging),
                               is_charging |-> is_charging]),
              built |-> Some(measurement),
              cleaned |-> IF due THEN Some(Cutoff(now2, hours)) ELSE None]

\* ------------------------------------------------------ icon handles
\* HICON values: 0 is the null handle, a live handle is a positive number.
NullIcon == 0

\* create_battery_icon: CreateIconIndirect(..).unwrap_or_default() gives a fresh
\* handle, or the null handle when the call fails.
create_battery_icon(live, iconOk) ==
    IF iconOk THEN CHOOSE h \in 1..(Cardinality(live) + 1) : h \notin live
    ELSE NullIcon

Allocate(live, icon) == IF icon = NullIcon THEN live ELSE live \cup {icon}

\* BatteryMonitor::destroy_icon on (last_icon, live handles)
destroy_icon(li, live) ==
    IF li # None THEN [last_icon |-> None, live |-> live \ {li[1]}]
    ELSE [last_icon |-> None, live |-> live]

\* ui::add_tray_icon
add_tray_icon(li, live, iconOk) ==
    LET icon == create_battery_icon(live, iconOk)
        d == destroy_icon(li, Allocate(live, icon))
    IN  [last_icon |-> Some(icon), live |-> d.live]

\* ui::update_tray_icon: the sample, and on Some(..) the icon replacement.
update_tray_icon(ms, hours, li, live, status, iconOk, now1, now2) ==
    LET got == get_battery_status(ms, hours, status, now1, now2)
        icon == create_battery_icon(live, iconOk)
        d == destroy_icon(li, Allocate(live, icon))
    IN  IF got.result = None
        THEN [got |-> got, last_icon |-> li, live |-> live]
        ELSE [got |-> got, last_icon |-> Some(icon), live |-> d.live]

\* ------------------------------------------------------ mutex and dialogs
\* A message box on screen: its caption, the detail report it shows (None for
\* a fixed text) and whether the handler frame that opened it, suspended in
\* MessageBoxW, still holds a MutexGuard on MONITOR.
Dialog(title, info, guard) == [title |-> title, info |-> info, guard |-> guard]

\* std::sync::Mutex::lock on the window's only thread; `held` says that a
\* suspended frame of this thread holds the guard, and then the call never
\* returns.
Mutex_lock(held) == IF held THEN "deadlock" ELSE "acquired"

\* A click handler that keeps the guard alive across MessageBoxW.
handle_tray_event_keeps_guard(ms) ==
    IF ms # <<>>
    THEN LET last == ms[Len(ms)]
         IN  Some(Dialog("Battery Details",
                         Some(get_detailed_info(ms, last.percentage, last.is_charging)),
                         TRUE))
    ELSE None

\* ui::handle_tray_event for WM_LBUTTONUP, the lock acquired: the message box
\* it opens, if any; drop(mon) precedes MessageBoxW.
handle_tray_event(ms) ==
    IF ms # <<>>
    THEN LET last == ms[Len(ms)]
         IN  Some(Dialog("Battery Details",
                         Some(get_detailed_info(ms, last.percentage, last.is_charging)),
                         FALSE))
    ELSE None

\* ui::handle_menu_command for 1001, 1002 and 1003: a message box with a fixed
\* text ("Coming soon!", the version), which is not modelled.
MenuMessage == Dialog("Battesty", None, FALSE)

\* A popup menu opened by a frame that holds the guard.
PopupMenu_under_guard == Dialog("Menu", None, TRUE)

\* ui::show_context_menu: the popup menu TrackPopupMenu runs; no guard is
\* taken on the way to it.
PopupMenu == Dialog("Menu", None, FALSE)

\* std::sync::Mutex::try_lock: returns at once, with Err(WouldBlock) when a
\* guard is alive.
Mutex_try_lock(held) == IF held THEN "would_block" ELSE "acquired"

\* ------------------------------------------------------ version 0.0.2
\* mainV0.0.2.rs saves from inside the sample, when the store's length is a
\* multiple of ten.
SaveEvery == 10

\* BatteryMonitor::get_battery_status of mainV0.0.2.rs: the push, a cleanup
\* pass on every sample, the ETA and the save; `old` is the snapshot on disk
\* and `outcome` what the write does if one is attempted.
V002_get_battery_status(ms, old, hours, status, now1, now2, outcome) ==
    IF ~status.ok
    THEN [measurements |-> ms, result |-> None, built |-> None, cleaned |-> None,
          file |-> old, wrote |-> None]
    ELSE LET percentage == status.BatteryLifePercent
             is_charging == (status.ACLineStatus = 1)
             measurement == BatteryMeasurement(now1, percentage, is_charging,
                                               estimate_discharge_rate(ms))
             kept == pop_while_old(Append(ms, measurement), Cutoff(now2, hours))
             saves == (Len(kept) % SaveEvery = 0)
         IN  [measurements |-> kept,
              result |-> Some([percentage |-> percentage,
                               eta |-> calculate_eta(kept, percentage, is_charging),
                               is_charging |-> is_charging]),
              built |-> Some(measurement),
              cleaned |-> Some(Cutoff(now2, hours)),
              file |-> IF saves THEN save_history(kept, old, outcome).file ELSE old,
              wrote |-> IF saves THEN Some(outcome) ELSE None]

\* ------------------------------------------------------ state
VARIABLES
    phase,          \* "uninit" (before WM_CREATE), "ready", "quit" (WM_QUIT posted)
    measurements,   \* BatteryMonitor.measurements, oldest first
    settings,       \* BatteryMonitor.settings
    last_icon,      \* BatteryMonitor.last_icon : Option<HICON>
    liveIcons,      \* the icon handles created and not yet destroyed
    historyFile,    \* battesty_history.json
    configFile,     \* battesty_config.json
    dialogs,        \* the message boxes open, innermost last
    clock,          \* the wall clock, what Local::now() returns
    nsamples,       \* successful samples taken so far
    lastOp,         \* the handler that ran last
    host,           \* the power status the host presented to it, if it is a sampling handler
    result,         \* what get_battery_status returned in it, if it was called
    built,          \* the Measurement it constructed
    cleaned,        \* the cutoff of the cleanup pass it ran
    wrote,          \* the outcome of the write save_history attempted
    shutdownLog,    \* what the shutdown path did, in order
    acquired,       \* the call it made on MONITOR's mutex: "lock", "try_lock" or none
    sinceCleanup    \* successful samples since the last cleanup pass (or the start)

monitor == <<measurements, settings, last_icon>>
observed == <<lastOp, host, result, built, cleaned, wrote>>
vars == <<phase, measurements, settings, last_icon, liveIcons, historyFile, configFile,
          dialogs, clock, nsamples, lastOp, host, result, built, cleaned, wrote,
          shutdownLog, acquired, sinceCleanup>>

\* Whether a suspended handler frame holds the guard on MONITOR.
guardHeld == \E i \in 1..Len(dialogs) : dialogs[i].guard

\* ------------------------------------------------------ snapshots on disk
RECURSIVE Repeat(_, _)
Repeat(x, n) == IF n = 0 THEN <<>> ELSE <<x>> \o Repeat(x, n - 1)

\* Short histories in time order, as an earlier run wrote them.
ShortHistories ==
    {<<>>,
     <<BatteryMeasurement(0, 50, FALSE, 0)>>,
     <<BatteryMeasurement(0, 50, FALSE, 0), BatteryMeasurement(0, 50, FALSE, 0)>>,
     <<BatteryMeasurement(0, 50, FALSE, 0),
       BatteryMeasurement(StepSeconds, 40, FALSE, -1000)>>}

\* The second clock read of a handler whose first read was now1: Local::now()
\* is read again only by a cleanup pass, which runs when the push makes the
\* length a multiple of CleanupEvery; time passes between the two reads.
LaterReads(ms, status, now1) ==
    IF status.ok /\ (Len(ms) + 1) % CleanupEvery = 0
    THEN {t \in Instants : t >= now1}
    ELSE {now1}

Pad(t) == BatteryMeasurement(t, 100, TRUE, 0)

\* Histories one or two samples short of a cleanup pass: one in time order
\* that ends in a discharge, one of equal samples, and one whose last sample
\* was taken after the wall clock had been set back.
LongHistories ==
    {Repeat(Pad(0), CleanupEvery - 3)
        \o <<BatteryMeasurement(0, 70, FALSE, 0),
              BatteryMeasurement(StepSeconds, 50, FALSE, 0)>>,
     Repeat(Pad(StepSeconds), CleanupEvery - 2),
     Repeat(Pad(2 * StepSeconds), CleanupEvery - 2)
        \o <<BatteryMeasurement(0, 50, FALSE, 0)>>}

\* A snapshot cut short, and two that do not match the Measurement schema.
BrokenHistoryFiles ==
    {File("text", FALSE, to_string(<<BatteryMeasurement(0, 50, FALSE, 0)>>).body)} \cup
    {File("text", TRUE, <<[timestamp |-> TimestampToText(0), percentage |-> 50,
                           is_charging |-> FALSE]>>),
     File("text", TRUE, <<MeasurementToJson(BatteryMeasurement(0, 50, FALSE, 0)),
                          MeasurementToJson(BatteryMeasurement(0, 256, FALSE, 0))>>)}

ShortHistoryFiles ==
    {MissingFile, UnreadableFile} \cup BrokenHistoryFiles
        \cup {to_string(h) : h \in ShortHistories}

LongHistoryFiles == {to_string(h) : h \in LongHistories}

\* battesty_config.json is read once, by AppSettings::load, and never written
\* (nothing calls AppSettings::save).
PartialConfigFile == File("text", TRUE, <<[update_interval_ms |-> 5000]>>)

ConfigFiles ==
    {MissingFile, PartialConfigFile} \cup
    {File("text", TRUE, <<AppSettings(5000, h, FALSE)>>) : h \in {0, 1}}

\* Settings files that hold every subset of the three fields, with values
\* that differ from the defaults, and one that is cut short.
SettingsFiles ==
    {MissingFile, File("text", FALSE, <<AppSettings(5000, 1, FALSE)>>)} \cup
    {File("text", TRUE, <<[f \in present |-> AppSettings(5000, 1, FALSE)[f]]>>) :
        present \in SUBSET SettingsFields}

\* ------------------------------------------------------ estimator inputs
SampleKinds ==
    {BatteryMeasurement(t, p, c, 0) : t \in {0, StepSeconds}, p \in {40, 50}, c \in BOOLEAN}

\* Every store of at most two samples of these kinds, in any order.
PairHistories ==
    {<<>>} \cup {<<a>> : a \in SampleKinds} \cup {<<a, b>> : a, b \in SampleKinds}

\* Stores chosen for the estimator: single samples above and below 50 %, a
\* steady discharge, an unplugging followed by a discharge, a discharge of
\* 1 % in 101 hours, and a discharge that lies outside the window of the
\* ten newest samples.
SelectedHistories ==
    {<<BatteryMeasurement(0, 55, FALSE, 0)>>,
     <<BatteryMeasurement(0, 45, FALSE, 0)>>,
     <<BatteryMeasurement(0, 100, FALSE, 0), BatteryMeasurement(StepSeconds, 70, FALSE, 0),
       BatteryMeasurement(2 * StepSeconds, 50, FALSE, 0)>>,
     <<BatteryMeasurement(0, 100, TRUE, 0), BatteryMeasurement(StepSeconds, 70, FALSE, 0)>>,
     <<BatteryMeasurement(0, 51, FALSE, 0),
       BatteryMeasurement(101 * SecondsPerHour, 50, FALSE, 0)>>,
     <<BatteryMeasurement(0, 70, FALSE, 0), BatteryMeasurement(StepSeconds, 50, FALSE, 0)>>
        \o Repeat(BatteryMeasurement(StepSeconds, 50, TRUE, 0), WindowSize)}

Half(c) == BatteryMeasurement(0, 50, c, 0)

\* Stores around the 100 samples and the two full charges the degradation
\* estimate asks for.
FullChargeHistories ==
    {Repeat(Half(TRUE), DegradationMinSamples),
     Repeat(Half(TRUE), DegradationMinSamples - 1) \o <<Pad(0)>>,
     Repeat(Half(TRUE), DegradationMinSamples - 2) \o <<Pad(0), Pad(0)>>,
     Repeat(Pad(0), DegradationMinSamples - 1),
     Repeat(Half(TRUE), DegradationMinSamples - 2) \o <<Pad(0)>>}

CalcHistoryFiles ==
    {to_string(h) : h \in PairHistories \cup SelectedHistories \cup FullChargeHistories}

\* What GetSystemPowerStatus can report: any BatteryLifePercent (255 is
\* "unknown"), on battery or on AC power.
AnyPowerStatuses ==
    {PowerStatus(FALSE, 0, 0)} \cup
    {PowerStatus(TRUE, p, 0) : p \in {0, 45, 50}} \cup
    {PowerStatus(TRUE, p, 1) : p \in {40, 99, 100, 255}}

\* ------------------------------------------------------ behaviour
InitWith(files, configs, clocks) ==
    /\ phase = "uninit"
    /\ measurements = <<>>
    /\ settings = AppSettings_default
    /\ last_icon = None
    /\ liveIcons = {}
    /\ historyFile \in files
    /\ configFile \in configs
    /\ dialogs = <<>>
    /\ clock \in clocks
    /\ nsamples = 0
    /\ lastOp = "start"
    /\ host = None
    /\ result = None
    /\ built = None
    /\ cleaned = None
    /\ wrote = None
    /\ shutdownLog = <<>>
    /\ acquired = None
    /\ sinceCleanup = 0

\* The process starts beside a short, missing or broken history snapshot.
\* (The settings file that holds one field loads as a missing one does.)
Init == InitWith(ShortHistoryFiles, ConfigFiles \ {PartialConfigFile}, {0})

\* The process starts beside a snapshot that is close to a cleanup pass.
InitLong == InitWith(LongHistoryFiles, ConfigFiles \ {PartialConfigFile}, {0})

\* The process starts beside a snapshot chosen for the estimator and no
\* settings file, an hour after the clock's origin.
InitCalc == InitWith(CalcHistoryFiles, {MissingFile}, {StepSeconds})

\* The process starts beside any of the settings files.
InitSettings ==
    InitWith({MissingFile, to_string(<<BatteryMeasurement(0, 50, FALSE, 0)>>)},
             SettingsFiles, {0})

\* The process starts beside a snapshot of two samples and no settings file.
InitUI ==
    InitWith({to_string(<<BatteryMeasurement(0, 50, FALSE, 0),
                          BatteryMeasurement(StepSeconds, 40, FALSE, -1000)>>)},
             {MissingFile}, {0})

\* mainV0.0.2.rs starts beside no snapshot, or one of two or nine samples,
\* the last one short of a save.
V002_Init ==
    InitWith({MissingFile,
              to_string(<<BatteryMeasurement(0, 50, FALSE, 0),
                          BatteryMeasurement(StepSeconds, 40, FALSE, -1000)>>),
              to_string(Repeat(BatteryMeasurement(StepSeconds, 50, TRUE, 0), SaveEvery - 1))},
             ConfigFiles \ {PartialConfigFile}, {StepSeconds})

\* The process starts beside no snapshot or one that is two samples short of
\* a cleanup pass, and runs for a hundred samples and more.
InitGrow ==
    InitWith({MissingFile, to_string(Repeat(Pad(0), CleanupEvery - 2))},
             ConfigFiles \ {PartialConfigFile}, {0})

\* WM_CREATE: BatteryMonitor::new() and add_tray_icon.
Create ==
    /\ phase = "uninit"
    /\ \E iconOk \in BOOLEAN :
          LET a == add_tray_icon(None, liveIcons, iconOk)
          IN  /\ last_icon' = a.last_icon
              /\ liveIcons' = a.live
    /\ measurements' = load_history(historyFile)
    /\ settings' = AppSettings_load(configFile)
    /\ phase' = "ready"
    /\ lastOp' = "create"
    /\ host' = None
    /\ result' = None /\ built' = None /\ cleaned' = None /\ wrote' = None
    /\ acquired' = Some("lock")
    /\ UNCHANGED <<historyFile, configFile, dialogs, clock, nsamples, shutdownLog,
                   sinceCleanup>>

\* A handler whose monitor.lock() never returns: the thread waits for a guard
\* that one of its own suspended frames holds.
Hang(op, h) ==
    /\ phase' = "hung"
    /\ lastOp' = op
    /\ host' = h
    /\ result' = None /\ built' = None /\ cleaned' = None /\ wrote' = None
    /\ acquired' = Some("lock")
    /\ UNCHANGED <<monitor, liveIcons, historyFile, configFile, dialogs, clock, nsamples,
                   shutdownLog, sinceCleanup>>

\* The body shared by the handlers that call update_tray_icon, the host
\* presenting one of `statuses` and CreateIconIndirect succeeding as one of
\* iconOks says; addFirst says whether add_tray_icon runs before it (the
\* TaskbarCreated handler); at most `cap` samples succeed in a run.
UpdateWith(op, addFirst, statuses, iconOks, cap) ==
    /\ phase = "ready"
    /\ \E status \in statuses, iconOk \in iconOks :
          IF Mutex_lock(guardHeld) # "acquired" THEN Hang(op, Some(status))
          ELSE
       /\ status.ok => nsamples < cap
       /\ \E now2 \in LaterReads(measurements, status, clock) :
          LET a == IF addFirst THEN add_tray_icon(last_icon, liveIcons, iconOk)
                   ELSE [last_icon |-> last_icon, live |-> liveIcons]
          IN  \E u \in {update_tray_icon(measurements, settings.history_retention_hours,
                                         a.last_icon, a.live, status, iconOk, clock, now2)} :
              /\ measurements' = u.got.measurements
              /\ last_icon' = u.last_icon
              /\ liveIcons' = u.live
              /\ result' = u.got.result
              /\ built' = u.got.built
              /\ cleaned' = u.got.cleaned
              /\ clock' = now2
              /\ nsamples' = IF status.ok THEN nsamples + 1 ELSE nsamples
              /\ host' = Some(status)
              /\ lastOp' = op
              /\ wrote' = None
              /\ acquired' = Some("lock")
              /\ sinceCleanup' = IF ~status.ok THEN sinceCleanup
                                 ELSE IF u.got.cleaned # None THEN 0
                                 ELSE sinceCleanup + 1
              /\ UNCHANGED <<phase, settings, historyFile, configFile, dialogs, shutdownLog>>

Update(op, addFirst) == UpdateWith(op, addFirst, PowerStatuses, BOOLEAN, MaxSamples)

\* WM_TIMER with TIMER_UPDATE
TimerUpdate == Update("update", FALSE)

\* WM_POWERBROADCAST with PBT_APMRESUMESUSPEND or PBT_APMRESUMEAUTOMATIC
Resume == Update("update", FALSE)

\* The registered TaskbarCreated message
TaskbarCreated == Update("taskbar_created", TRUE)

\* WM_TIMER with TIMER_UPDATE, the host presenting any power status and the
\* icon drawn.
Poll == UpdateWith("update", FALSE, AnyPowerStatuses, {TRUE}, MaxSamples)

\* A handler that leaves the save to the next save tick.
Save_deferred(op) ==
    /\ phase = "ready"
    /\ lastOp' = op
    /\ host' = None
    /\ result' = None /\ built' = None /\ cleaned' = None /\ wrote' = None
    /\ acquired' = None
    /\ UNCHANGED <<phase, monitor, liveIcons, historyFile, configFile, dialogs, clock,
                   nsamples, shutdownLog, sinceCleanup>>

\* WM_TIMER with TIMER_UPDATE, again and again: the query fails or reports
\* 50 % on battery, the icon is drawn.
Tick ==
    UpdateWith("update", FALSE, {PowerStatus(FALSE, 0, 0), PowerStatus(TRUE, 50, 0)}, {TRUE},
               MaxAppends)

\* The body shared by the handlers that only call save_history.
Save(op) ==
    /\ phase = "ready"
    /\ IF Mutex_lock(guardHeld) # "acquired" THEN Hang(op, None)
       ELSE
       /\ \E outcome \in WriteOutcomes :
             LET s == save_history(measurements, historyFile, outcome)
             IN  /\ historyFile' = s.file
                 /\ phase' = IF s.panicked THEN "crashed" ELSE phase
                 /\ wrote' = Some(outcome)
       /\ lastOp' = op
       /\ host' = None
       /\ result' = None /\ built' = None /\ cleaned' = None
       /\ acquired' = Some("lock")
       /\ UNCHANGED <<monitor, liveIcons, configFile, dialogs, clock, nsamples, shutdownLog,
                      sinceCleanup>>

\* WM_TIMER with TIMER_SAVE
TimerSave == Save("save")

\* WM_POWERBROADCAST with PBT_APMSUSPEND
Suspend == Save("save")

\* WM_DESTROY: ui::cleanup_and_exit
Destroy ==
    /\ phase = "ready"
    /\ IF Mutex_lock(guardHeld) # "acquired" THEN Hang("destroy", None)
       ELSE
       /\ \E outcome \in WriteOutcomes :
             LET s == save_history(measurements, historyFile, outcome)
                 d == destroy_icon(last_icon, liveIcons)
             IN  /\ historyFile' = s.file
                 /\ wrote' = Some(outcome)
                 /\ last_icon' = IF s.panicked THEN last_icon ELSE d.last_icon
                 /\ liveIcons' = IF s.panicked THEN liveIcons ELSE d.live
                 /\ phase' = IF s.panicked THEN "crashed" ELSE "quit"
                 /\ shutdownLog' = IF s.panicked THEN <<"persist">>
                                   ELSE <<"persist", "release">>
       /\ lastOp' = "destroy"
       /\ host' = None
       /\ result' = None /\ built' = None /\ cleaned' = None
       /\ acquired' = Some("lock")
       /\ UNCHANGED <<measurements, settings, configFile, dialogs, clock, nsamples,
                      sinceCleanup>>

\* WM_COMMAND 1004 (Exit): ui::handle_menu_command posts WM_QUIT.
MenuExit ==
    /\ phase = "ready"
    /\ phase' = "quit"
    /\ lastOp' = "menu_exit"
    /\ host' = None
    /\ result' = None /\ built' = None /\ cleaned' = None /\ wrote' = None
    /\ acquired' = None
    /\ UNCHANGED <<monitor, liveIcons, historyFile, configFile, dialogs, clock, nsamples,
                   shutdownLog, sinceCleanup>>

\* WM_TRAYICON with WM_LBUTTONUP: the detail report in a message box.
TrayClick ==
    /\ phase = "ready"
    /\ Len(dialogs) < MaxDialogs
    /\ IF Mutex_lock(guardHeld) # "acquired" THEN Hang("click", None)
       ELSE
       /\ LET box == handle_tray_event(measurements)
          IN  dialogs' = IF box = None THEN dialogs ELSE Append(dialogs, box[1])
       /\ lastOp' = "click"
       /\ host' = None
       /\ result' = None /\ built' = None /\ cleaned' = None /\ wrote' = None
       /\ acquired' = Some("lock")
       /\ UNCHANGED <<phase, monitor, liveIcons, historyFile, configFile, clock, nsamples,
                      shutdownLog, sinceCleanup>>

\* WM_COMMAND 1001, 1002, 1003: a message box with a fixed text.
MenuCommand ==
    /\ phase = "ready"
    /\ Len(dialogs) < MaxDialogs
    /\ dialogs' = Append(dialogs, MenuMessage)
    /\ lastOp' = "menu"
    /\ host' = None
    /\ result' = None /\ built' = None /\ cleaned' = None /\ wrote' = None
    /\ acquired' = None
    /\ UNCHANGED <<phase, monitor, liveIcons, historyFile, configFile, clock, nsamples,
                   shutdownLog, sinceCleanup>>

\* The user dismisses the innermost message box: MessageBoxW returns and the
\* frame that called it ends, dropping what it held.
DialogClose ==
    /\ phase = "ready"
    /\ dialogs # <<>>
    /\ dialogs' = SubSeq(dialogs, 1, Len(dialogs) - 1)
    /\ lastOp' = "dialog_closed"
    /\ host' = None
    /\ result' = None /\ built' = None /\ cleaned' = None /\ wrote' = None
    /\ acquired' = None
    /\ UNCHANGED <<phase, monitor, liveIcons, historyFile, configFile, clock, nsamples,
                   shutdownLog, sinceCleanup>>

\* The wall clock moves: time passes, or the user or a time service sets it.
ClockChange ==
    /\ phase = "ready"
    /\ clock' \in Instants \ {clock}
    /\ lastOp' = "clock"
    /\ host' = None
    /\ result' = None /\ built' = None /\ cleaned' = None /\ wrote' = None
    /\ acquired' = None
    /\ UNCHANGED <<phase, monitor, liveIcons, historyFile, configFile, dialogs, nsamples,
                   shutdownLog, sinceCleanup>>

\* WM_TRAYICON with WM_RBUTTONUP: ui::show_context_menu opens the popup menu.
ShowContextMenu ==
    /\ phase = "ready"
    /\ Len(dialogs) < MaxDialogs
    /\ dialogs' = Append(dialogs, PopupMenu)
    /\ lastOp' = "popup"
    /\ host' = None
    /\ result' = None /\ built' = None /\ cleaned' = None /\ wrote' = None
    /\ acquired' = None
    /\ UNCHANGED <<phase, monitor, liveIcons, historyFile, configFile, clock, nsamples,
                   shutdownLog, sinceCleanup>>

\* ------------------------------------------------------ version 0.0.2
\* The window procedure of mainV0.0.2.rs.  Its Monitor has no last_icon: the
\* icons it draws are never destroyed.  Its timer (SetTimer, KillTimer) is
\* not modelled: a WM_TIMER can arrive at any time, the resume handler posts
\* one itself.

\* WM_CREATE: BatteryMonitor::new(), the first icon, lock().unwrap() for the
\* timer's interval.
V002_Create ==
    /\ phase = "uninit"
    /\ measurements' = load_history(historyFile)
    /\ settings' = AppSettings_load(configFile)
    /\ \E iconOk \in BOOLEAN :
          liveIcons' = Allocate(liveIcons, create_battery_icon(liveIcons, iconOk))
    /\ phase' = "ready"
    /\ lastOp' = "create"
    /\ host' = None
    /\ result' = None /\ built' = None /\ cleaned' = None /\ wrote' = None
    /\ acquired' = Some("lock")
    /\ UNCHANGED <<last_icon, historyFile, configFile, dialogs, clock, nsamples, shutdownLog,
                   sinceCleanup>>

\* A handler whose try_lock() fails: it returns having done nothing.
V002_Skip(op) ==
    /\ lastOp' = op
    /\ host' = None
    /\ result' = None /\ built' = None /\ cleaned' = None /\ wrote' = None
    /\ acquired' = Some("try_lock")
    /\ UNCHANGED <<phase, monitor, liveIcons, historyFile, configFile, dialogs, clock,
                   nsamples, shutdownLog, sinceCleanup>>

\* WM_TIMER with TIMER_UPDATE: try_lock, the sample, a new icon on Some(..).
V002_Timer ==
    /\ phase = "ready"
    /\ IF Mutex_try_lock(guardHeld) # "acquired" THEN V002_Skip("poll")
       ELSE \E status \in PowerStatuses, outcome \in WriteOutcomes :
            \E now2 \in IF status.ok THEN {t \in Instants : t >= clock} ELSE {clock} :
              LET g == V002_get_battery_status(measurements, historyFile,
                                               settings.history_retention_hours,
                                               status, clock, now2, outcome)
              IN  /\ status.ok => nsamples < MaxSamples
                  /\ measurements' = g.measurements
                  /\ historyFile' = g.file
                  /\ liveIcons' = IF g.result = None THEN liveIcons
                                  ELSE Allocate(liveIcons,
                                                create_battery_icon(liveIcons, TRUE))
                  /\ result' = g.result
                  /\ built' = g.built
                  /\ cleaned' = g.cleaned
                  /\ wrote' = g.wrote
                  /\ clock' = now2
                  /\ nsamples' = IF status.ok THEN nsamples + 1 ELSE nsamples
                  /\ sinceCleanup' = IF status.ok THEN 0 ELSE sinceCleanup
                  /\ host' = Some(status)
                  /\ lastOp' = "poll"
                  /\ acquired' = Some("try_lock")
                  /\ UNCHANGED <<phase, settings, last_icon, configFile, dialogs,
                                 shutdownLog>>

\* A details click that waits for the guard.
V002_TrayClick_blocking ==
    /\ phase = "ready"
    /\ Len(dialogs) < MaxDialogs
    /\ IF Mutex_lock(guardHeld) # "acquired" THEN Hang("click", None)
       ELSE
       /\ LET box == handle_tray_event(measurements)
          IN  dialogs' = IF box = None THEN dialogs ELSE Append(dialogs, box[1])
       /\ lastOp' = "click"
       /\ host' = None
       /\ result' = None /\ built' = None /\ cleaned' = None /\ wrote' = None
       /\ acquired' = Some("lock")
       /\ UNCHANGED <<phase, monitor, liveIcons, historyFile, configFile, clock, nsamples,
                      shutdownLog, sinceCleanup>>

\* WM_TRAYICON with WM_LBUTTONUP: try_lock, the detail report, drop(mon),
\* the message box.
V002_TrayClick ==
    /\ phase = "ready"
    /\ Len(dialogs) < MaxDialogs
    /\ IF Mutex_try_lock(guardHeld) # "acquired" THEN V002_Skip("click")
       ELSE
       /\ LET box == handle_tray_event(measurements)
          IN  dialogs' = IF box = None THEN dialogs ELSE Append(dialogs, box[1])
       /\ lastOp' = "click"
       /\ host' = None
       /\ result' = None /\ built' = None /\ cleaned' = None /\ wrote' = None
       /\ acquired' = Some("try_lock")
       /\ UNCHANGED <<phase, monitor, liveIcons, historyFile, configFile, clock, nsamples,
                      shutdownLog, sinceCleanup>>

\* WM_POWERBROADCAST with PBT_APMSUSPEND: lock, save_history.
V002_Suspend ==
    /\ phase = "ready"
    /\ IF Mutex_lock(guardHeld) # "acquired" THEN Hang("suspend", None)
       ELSE
       /\ \E outcome \in WriteOutcomes :
             /\ historyFile' = save_history(measurements, historyFile, outcome).file
             /\ wrote' = Some(outcome)
       /\ lastOp' = "suspend"
       /\ host' = None
       /\ result' = None /\ built' = None /\ cleaned' = None
       /\ acquired' = Some("lock")
       /\ UNCHANGED <<phase, monitor, liveIcons, configFile, dialogs, clock, nsamples,
                      shutdownLog, sinceCleanup>>

\* WM_POWERBROADCAST with PBT_APMRESUMESUSPEND or PBT_APMRESUMEAUTOMATIC:
\* lock for the interval, then a WM_TIMER is posted.
V002_Resume ==
    /\ phase = "ready"
    /\ IF Mutex_lock(guardHeld) # "acquired" THEN Hang("resume", None)
       ELSE
       /\ lastOp' = "resume"
       /\ host' = None
       /\ result' = None /\ built' = None /\ cleaned' = None /\ wrote' = None
       /\ acquired' = Some("lock")
       /\ UNCHANGED <<phase, monitor, liveIcons, historyFile, configFile, dialogs, clock,
                      nsamples, shutdownLog, sinceCleanup>>

\* WM_DESTROY: lock, save_history, the tray icon removed, WM_QUIT posted.
V002_Destroy ==
    /\ phase = "ready"
    /\ IF Mutex_lock(guardHeld) # "acquired" THEN Hang("destroy", None)
       ELSE
       /\ \E outcome \in WriteOutcomes :
             /\ historyFile' = save_history(measurements, historyFile, outcome).file
             /\ wrote' = Some(outcome)
       /\ phase' = "quit"
       /\ shutdownLog' = <<"persist">>
       /\ lastOp' = "destroy"
       /\ host' = None
       /\ result' = None /\ built' = None /\ cleaned' = None
       /\ acquired' = Some("lock")
       /\ UNCHANGED <<monitor, liveIcons, configFile, dialogs, clock, nsamples,
                      sinceCleanup>>

Next ==
    \/ Create
    \/ TimerUpdate
    \/ Resume
    \/ TaskbarCreated
    \/ TimerSave
    \/ Suspend
    \/ Destroy
    \/ MenuExit
    \/ ClockChange

\* The handlers with the user's clicks on the tray icon and in its menu, the
\* wall clock standing still.
NextUI ==
    \/ Create
    \/ TimerUpdate
    \/ Resume
    \/ TaskbarCreated
    \/ TimerSave
    \/ Suspend
    \/ Destroy
    \/ MenuExit
    \/ TrayClick
    \/ ShowContextMenu
    \/ MenuCommand
    \/ DialogClose

\* The poll timer alone.
NextGrow ==
    \/ Create
    \/ Tick

\* The window procedure of mainV0.0.2.rs.
V002_Next ==
    \/ V002_Create
    \/ V002_Timer
    \/ V002_TrayClick
    \/ ShowContextMenu
    \/ MenuCommand
    \/ MenuExit
    \/ DialogClose
    \/ V002_Suspend
    \/ V002_Resume
    \/ V002_Destroy

\* The handlers that sample and report, the host presenting any power status.
NextCalc ==
    \/ Create
    \/ Poll
    \/ TrayClick
    \/ DialogClose

Spec == Init /\ [][Next]_vars

SpecLong == InitLong /\ [][Next]_vars

SpecCalc == InitCalc /\ [][NextCalc]_vars

SpecSettings == InitSettings /\ [][NextCalc]_vars

SpecUI == InitUI /\ [][NextUI]_vars

SpecGrow == InitGrow /\ [][NextGrow]_vars

SpecV002 == V002_Init /\ [][V002_Next]_vars

\* ------------------------------------------------------ properties
\* A sample step is a step that leaves built' # None: a handler called
\* get_battery_status and the host query succeeded.

\* C1 (as stated): in every successful sample the stored discharge_rate is the
\* estimate on the store before the append, and the ETA returned is the one
\* computed on the store after the append, new sample included.
C1_RateBeforeEtaAfterAppend ==
    [][built' # None =>
         LET appended == Append(measurements, built'[1])
         IN  /\ built'[1].discharge_rate = estimate_discharge_rate(measurements)
             /\ result'[1].eta = calculate_eta(appended, result'[1].percentage,
                                               result'[1].is_charging)]_vars

\* C1 (amended): the stored discharge_rate is the estimate on the store before
\* the append; the ETA returned is computed on the store as the call leaves it,
\* which is the store after the append unless the append triggered a cleanup
\* pass, and then the store after the append and that pass.
C1_RateBeforeEtaOnFinalStore ==
    [][built' # None =>
         /\ built'[1].discharge_rate = estimate_discharge_rate(measurements)
         /\ result'[1].eta = calculate_eta(measurements', result'[1].percentage,
                                           result'[1].is_charging)
         /\ (cleaned' = None => measurements' = Append(measurements, built'[1]))
         /\ (cleaned' # None =>
               measurements' = cleanup_old_measurements(
                                   Append(measurements, built'[1]), clock',
                                   settings.history_retention_hours))]_vars

\* A sample that stored a non-zero rate, ran a cleanup pass that evicted
\* something and returned a duration.
C1_Witness ==
    /\ built # None /\ built[1].discharge_rate # 0
    /\ cleaned # None /\ Len(measurements) < CleanupEvery
    /\ result[1].eta.text = "{}h {}m"

\* C2 (as stated): after a cleanup pass no Measurement left in the store is
\* older than the cutoff now - H.
C2_NoExpiredRemains ==
    cleaned # None =>
        \A i \in 1..Len(measurements) : measurements[i].timestamp >= cleaned[1]

\* C3: a cleanup pass removes no Measurement whose timestamp is >= now - H,
\* and keeps those in their order.
C3_KeepsUnexpired ==
    [][cleaned' # None =>
         LET Unexpired(m) == m.timestamp >= cleaned'[1]
         IN  SelectSeq(Append(measurements, built'[1]), Unexpired)
                 = SelectSeq(measurements', Unexpired)]_vars

\* A cleanup pass that evicted part of the store and kept the rest.
C3_Witness == cleaned # None /\ Len(measurements) \in 1..(CleanupEvery - 1)

\* C4 (as stated): the store is ordered oldest-first by timestamp.
C4_TimeOrdered ==
    \A i \in 1..(Len(measurements) - 1) :
        measurements[i].timestamp <= measurements[i + 1].timestamp

\* C5: when the host query fails, the sample returns None and the store, the
\* settings and the icon handle stay as they were; nothing is built or cleaned.
C5_FailedQueryChangesNothing ==
    [][(lastOp' \in {"update", "taskbar_created"} /\ result' = None) =>
          /\ UNCHANGED <<measurements, settings>>
          /\ built' = None /\ cleaned' = None
          /\ (lastOp' = "update" => UNCHANGED <<last_icon, liveIcons>>)]_vars

\* A failed query in a monitor that holds samples and an icon.
C5_Witness ==
    lastOp = "update" /\ result = None /\ measurements # <<>> /\ last_icon # None

\* C6 (as stated): whenever the message loop has been told to end, the store
\* was persisted and after that the icon handle released.
C6_ShutdownPersistsThenReleases ==
    phase = "quit" => shutdownLog = <<"persist", "release">>

\* C7: after a save whose write succeeded, loading the file gives the saved
\* store back, for a non-empty store.
C7_RoundTrip ==
    (wrote = Some("ok") /\ measurements # <<>>) =>
        load_history(historyFile) = measurements

\* A successful save of a store with several samples and a non-zero rate.
C7_Witness ==
    /\ wrote = Some("ok") /\ Len(measurements) >= 2
    /\ \E i \in 1..Len(measurements) :
          measurements[i].discharge_rate # 0 /\ measurements[i].timestamp # 0

\* C8: construction from a missing, unreadable, truncated or mismatching
\* snapshot ends in Ready with the empty store.
C8_LoadNeverFails ==
    (lastOp = "create" /\ historyFile \in {MissingFile, UnreadableFile} \cup BrokenHistoryFiles)
        => (phase = "ready" /\ measurements = <<>>)

\* Construction beside a snapshot that is cut short or mismatches the schema.
C8_Witness == lastOp = "create" /\ phase = "ready" /\ historyFile \in BrokenHistoryFiles

\* C9: a persist whose write fails raises nothing and changes nothing of the
\* monitor; on the periodic and suspend paths the monitor stays Ready.
C9_FailedWriteIsSwallowed ==
    [][(wrote' # None /\ wrote' # Some("ok")) =>
          /\ UNCHANGED <<measurements, settings>>
          /\ phase' # "crashed"
          /\ (lastOp' = "save" => UNCHANGED <<phase, last_icon, liveIcons>>)]_vars

\* A failed periodic or suspend save of a non-empty store.
C9_Witness ==
    lastOp = "save" /\ wrote = Some("write_failed") /\ measurements # <<>> /\ phase = "ready"

\* C10 (as stated): the only live icon handle is the one in last_icon, and
\* once the message loop has been told to end none is live.
C10_SingleLiveIcon ==
    /\ liveIcons \subseteq {last_icon[i] : i \in 1..Len(last_icon)}
    /\ (phase = "quit" => liveIcons = {})

\* C11: estimate_discharge_rate yields 0 when the store holds fewer than two
\* samples, when every sample of the window of the ten newest is charging,
\* or when no adjacent pair of the window has a positive elapsed time.
C11_NoQualifyingPairGivesZero ==
    [][built' # None =>
         LET recent == Recent(measurements)
             FewerThanTwo == Len(measurements) < 2
             AllCharging == \A i \in 1..Len(recent) : recent[i].is_charging
             NoTimePasses ==
                 \A i \in 1..(Len(recent) - 1) :
                     recent[i].timestamp - recent[i + 1].timestamp <= 0
         IN  (FewerThanTwo \/ AllCharging \/ NoTimePasses)
                 => built'[1].discharge_rate = 0]_vars

\* A sample on a store of charging samples whose percentage changed while
\* time passed, rated 0.
C11_Witness ==
    /\ built # None /\ built[1].discharge_rate = 0 /\ Len(measurements) >= 3
    /\ LET before == SubSeq(measurements, 1, Len(measurements) - 1)
       IN  /\ \A i \in 1..Len(before) : before[i].is_charging
           /\ \E i \in 1..(Len(before) - 1) :
                 /\ before[i].timestamp < before[i + 1].timestamp
                 /\ before[i].percentage # before[i + 1].percentage

\* The sum of the rates, in percent per hour, of a sequence of pairs.
RECURSIVE SumOfRates(_)
SumOfRates(pairs) ==
    IF pairs = <<>> THEN Frac(0, 1)
    ELSE FracAdd(Frac((Head(pairs).older.percentage - Head(pairs).newer.percentage)
                          * SecondsPerHour,
                      Head(pairs).newer.timestamp - Head(pairs).older.timestamp),
                 SumOfRates(Tail(pairs)))

\* C12 (as stated): the rate is the mean over the adjacent pairs of the
\* window with a positive elapsed time whose two samples are both
\* discharging; a pair that straddles a charging transition, in either
\* direction, is in neither the sum nor the count.
C12_StraddlingPairsExcluded ==
    [][built' # None =>
         LET recent == Recent(measurements)
             pairs == [i \in 1..(Len(recent) - 1) |->
                          [newer |-> recent[i], older |-> recent[i + 1]]]
             Counts(p) == /\ p.newer.timestamp - p.older.timestamp > 0
                          /\ ~p.newer.is_charging
                          /\ ~p.older.is_charging
             counted == SelectSeq(pairs, Counts)
             total == SumOfRates(counted)
         IN  built'[1].discharge_rate =
                 IF counted = <<>> THEN 0
                 ELSE TruncDiv(total.n * 100, total.d * Len(counted))]_vars

\* C13 (as stated): on a window of discharging samples with strictly
\* increasing timestamps and strictly decreasing percentage the rate is
\* negative.
C13_DischargeIsNegative ==
    [][built' # None =>
         LET recent == Recent(measurements)
             Discharging ==
                 /\ Len(recent) >= 2
                 /\ \A i \in 1..Len(recent) : ~recent[i].is_charging
                 /\ \A i \in 1..(Len(recent) - 1) :
                       /\ recent[i].timestamp > recent[i + 1].timestamp
                       /\ recent[i].percentage < recent[i + 1].percentage
         IN  Discharging => built'[1].discharge_rate < 0]_vars

\* C13 (amended): on such a window the rate is never negative, and it is
\* positive when every adjacent pair is less than 100 hours apart.
C13_DischargeIsPositive ==
    [][built' # None =>
         LET recent == Recent(measurements)
             Discharging ==
                 /\ Len(recent) >= 2
                 /\ \A i \in 1..Len(recent) : ~recent[i].is_charging
                 /\ \A i \in 1..(Len(recent) - 1) :
                       /\ recent[i].timestamp > recent[i + 1].timestamp
                       /\ recent[i].percentage < recent[i + 1].percentage
             Close ==
                 \A i \in 1..(Len(recent) - 1) :
                     recent[i].timestamp - recent[i + 1].timestamp < 100 * SecondsPerHour
         IN  Discharging =>
                 /\ built'[1].discharge_rate >= 0
                 /\ (Close => built'[1].discharge_rate > 0)]_vars

\* A sample rated above 0 on a store of three discharging samples.
C13_Witness ==
    /\ built # None /\ built[1].discharge_rate > 0 /\ Len(measurements) = 4
    /\ \A i \in 1..3 : ~measurements[i].is_charging
    /\ \A i \in 1..2 :
          /\ measurements[i].timestamp < measurements[i + 1].timestamp
          /\ measurements[i].percentage > measurements[i + 1].percentage

\* C14 (as stated): discharging, with a store that yields a negative rate r,
\* the ETA is the duration computed from |r| / 100 percent per hour; for
\* r = -500 and 50 % it is "10h 0m".
C14_NegativeRateGivesDuration ==
    [][(built' # None /\ ~result'[1].is_charging) =>
         LET r == estimate_discharge_rate(measurements')
             minutes == (result'[1].percentage * 6000) \div Abs(r)
         IN  /\ r < 0 =>
                   result'[1].eta = IF minutes < 1 THEN Eta("< 1 min", 0, 0, "")
                                    ELSE format_time(minutes)
             /\ (r = -500 /\ result'[1].percentage = 50) =>
                   result'[1].eta = Eta("{}h {}m", 10, 0, "")]_vars

\* C14 (amended): discharging, with a store that yields a positive rate r,
\* the ETA is the duration computed from r / 100 percent per hour, in whole
\* minutes as the f64 product gives them (the exact quotient's or one less);
\* for r = 500 and 50 % it is "10h 0m"; a negative rate gives
\* "Calculating...".
C14_PositiveRateGivesDuration ==
    [][(built' # None /\ ~result'[1].is_charging) =>
         LET r == estimate_discharge_rate(measurements')
             minutes == (result'[1].percentage * 6000) \div Abs(r)
             Render(m) == IF m < 1 THEN Eta("< 1 min", 0, 0, "") ELSE format_time(m)
         IN  /\ r > 0 => result'[1].eta \in {Render(minutes), Render(minutes - 1)}
             /\ (r = 500 /\ result'[1].percentage = 50) =>
                   result'[1].eta = Eta("{}h {}m", 10, 0, "")
             /\ r < 0 => result'[1].eta = Eta("Calculating...", 0, 0, "")]_vars

\* A discharging sample at 50 % whose store yields the rate 500.
C14_Witness ==
    /\ built # None /\ ~result[1].is_charging /\ result[1].percentage = 50
    /\ estimate_discharge_rate(measurements) = 500
    /\ result[1].eta = Eta("{}h {}m", 10, 0, "")

\* C15: discharging, the ETA is "Calculating..." whenever the rate computed
\* from the store is not positive, at every percentage.
C15_NonPositiveRateIsCalculating ==
    [][(built' # None /\ ~result'[1].is_charging
            /\ estimate_discharge_rate(measurements') <= 0)
         => result'[1].eta = Eta("Calculating...", 0, 0, "")]_vars

\* A discharging sample whose store yields a negative rate.
C15_Witness ==
    /\ built # None /\ ~result[1].is_charging /\ result[1].percentage > 0
    /\ estimate_discharge_rate(measurements) < 0
    /\ result[1].eta.text = "Calculating..."

\* C16 (as stated): charging, the ETA does not depend on the history; at
\* 100 % and above it is "Fully charged", below it is the duration of
\* trunc((100 - p) / 1.5) minutes, "40m" at 40 %.
C16_ChargingEtaIsBareDuration ==
    [][(built' # None /\ result'[1].is_charging) =>
         LET p == result'[1].percentage
         IN  /\ result'[1].eta = calculate_eta(<<>>, p, TRUE)
             /\ p >= 100 => result'[1].eta = Eta("Fully charged", 0, 0, "")
             /\ p < 100 => result'[1].eta = format_time(((100 - p) * 2) \div 3)
             /\ p = 40 => result'[1].eta = Eta("{}m", 0, 40, "")]_vars

\* C16 (amended): the same, the duration followed by " until full":
\* "40m until full" at 40 %.
C16_ChargingEtaUntilFull ==
    [][(built' # None /\ result'[1].is_charging) =>
         LET p == result'[1].percentage
         IN  /\ result'[1].eta = calculate_eta(<<>>, p, TRUE)
             /\ p >= 100 => result'[1].eta = Eta("Fully charged", 0, 0, "")
             /\ p < 100 => result'[1].eta =
                   [format_time(((100 - p) * 2) \div 3) EXCEPT !.suffix = " until full"]
             /\ p = 40 => result'[1].eta = Eta("{}m", 0, 40, " until full")]_vars

\* A charging sample at 255 % on a store that yields a rate, reported as
\* fully charged.
C16_Witness ==
    /\ built # None /\ result[1].is_charging /\ result[1].percentage = 255
    /\ built[1].discharge_rate # 0
    /\ result[1].eta.text = "Fully charged"

\* C17: the degradation estimate in a detail report is 0 or 2.5: 0 for a
\* store of fewer than 100 samples, 0 when fewer than two samples are at
\* 100 %, and 2.5 for 100 samples or more of which two or more are at 100 %.
C17_DegradationIsZeroOrTwoAndAHalf ==
    [][(lastOp' = "click" /\ Len(dialogs') > Len(dialogs)) =>
         LET IsFull(m) == m.percentage = 100
             full == Len(SelectSeq(measurements, IsFull))
             degradation == dialogs'[Len(dialogs')].info[1].degradation
         IN  /\ degradation \in {Frac(0, 1), Frac(5, 2)}
             /\ Len(measurements) < 100 => degradation = Frac(0, 1)
             /\ full < 2 => degradation = Frac(0, 1)
             /\ (Len(measurements) >= 100 /\ full >= 2) => degradation = Frac(5, 2)]_vars

\* A detail report on a store of exactly 100 samples that shows 2.5.
C17_Witness ==
    /\ lastOp = "click" /\ dialogs # <<>> /\ Len(measurements) = 100
    /\ dialogs[Len(dialogs)].info[1].degradation = Frac(5, 2)

\* C18: loading settings from a file that holds a proper subset of the fields
\* does not fail, and every missing field has its default; from a file that
\* holds update_interval_ms = 5000 only, the retention is 168 hours and the
\* percentage is shown.
C18_MissingFieldsTakeDefaults ==
    (/\ lastOp = "create" /\ configFile.kind = "text" /\ configFile.complete
     /\ DOMAIN configFile.body[1] # SettingsFields)
        => /\ phase = "ready"
           /\ \A f \in SettingsFields \ DOMAIN configFile.body[1] :
                 settings[f] = AppSettings_default[f]
           /\ configFile = PartialConfigFile =>
                 /\ settings.history_retention_hours = 168
                 /\ settings.show_percentage_on_icon = TRUE

\* Construction beside the settings file that holds update_interval_ms only.
C18_Witness == lastOp = "create" /\ phase = "ready" /\ configFile = PartialConfigFile

\* C19 (as stated): after loading a settings file that holds any subset of
\* the fields, every field the file holds has the file's value and every
\* other field its default.
C19_FileOverridesFieldByField ==
    (lastOp = "create" /\ configFile.kind = "text" /\ configFile.complete)
        => \A f \in SettingsFields :
              settings[f] = IF f \in DOMAIN configFile.body[1]
                            THEN configFile.body[1][f]
                            ELSE AppSettings_default[f]

\* C20: no handler waits for the mutex forever, and every poll tick or resume
\* event to which the host reports a status appends one Measurement, the one
\* it built, whether or not a message box is open.
C20_NoUpdateSkipped ==
    [][/\ phase' # "hung"
       /\ (lastOp' = "update" /\ host' # None /\ host'[1].ok) =>
             /\ built' # None
             /\ measurements' =
                   IF cleaned' = None THEN Append(measurements, built'[1])
                   ELSE cleanup_old_measurements(Append(measurements, built'[1]), clock',
                                                 settings.history_retention_hours)]_vars

\* A sample taken while the detail report is on screen.
C20_Witness ==
    /\ lastOp = "update" /\ built # None
    /\ dialogs # <<>> /\ dialogs[1].title = "Battery Details"

\* C21 (as stated): in mainV0.0.2.rs only the poll tick uses try_lock, and a
\* tick that finds the guard taken leaves the store as it was and does not
\* wait; the details click, the suspend handler and the shutdown handler use
\* the blocking lock.
C21_TryLockOnPollOnly ==
    [][/\ lastOp' = "poll" =>
             /\ acquired' = Some("try_lock")
             /\ phase' # "hung"
             /\ guardHeld => UNCHANGED <<measurements, historyFile>>
       /\ lastOp' \in {"click", "suspend", "destroy"} => acquired' = Some("lock")]_vars

\* C21 (amended): the poll tick and the details click use try_lock, and
\* either leaves the store as it was, opens nothing and does not wait when
\* the guard is taken; the suspend, resume and shutdown handlers use the
\* blocking lock.
C21_TryLockOnPollAndClick ==
    [][/\ lastOp' \in {"poll", "click"} =>
             /\ acquired' = Some("try_lock")
             /\ phase' # "hung"
             /\ guardHeld => UNCHANGED <<measurements, historyFile, dialogs>>
       /\ lastOp' \in {"suspend", "resume", "destroy"} => acquired' = Some("lock")]_vars

\* A details click that took the guard with try_lock and opened the report
\* over a store the poll tick had appended to.
C21_Witness ==
    /\ lastOp = "click" /\ acquired = Some("try_lock")
    /\ nsamples > 0
    /\ dialogs # <<>> /\ dialogs[Len(dialogs)].title = "Battery Details"

\* C22: the handler of a suspend notification takes the Monitor and attempts
\* the write of the store as it is, which on success leaves the snapshot
\* equal to the store, before it returns; the handler of a resume
\* notification queries the host once and, when the query succeeds, appends
\* the one Measurement it built, before it returns.
C22_PowerEventsActAtOnce ==
    [][/\ Suspend =>
             /\ acquired' = Some("lock")
             /\ wrote' # None
             /\ wrote' = Some("ok") => historyFile' = to_string(measurements)
             /\ UNCHANGED measurements
       /\ Resume =>
             /\ acquired' = Some("lock")
             /\ host' # None
             /\ IF host'[1].ok
                THEN /\ built' # None /\ result' # None
                     /\ nsamples' = nsamples + 1
                     /\ cleaned' = None => measurements' = Append(measurements, built'[1])
                ELSE /\ built' = None /\ result' = None
                     /\ UNCHANGED <<measurements, nsamples>>]_vars

\* The store a sample was appended to, written out in full while the popup
\* menu is open.
C22_Witness ==
    /\ lastOp = "save" /\ wrote = Some("ok")
    /\ nsamples > 0 /\ measurements # <<>>
    /\ historyFile = to_string(measurements)
    /\ dialogs # <<>> /\ dialogs[Len(dialogs)].title = "Menu"

\* C23 (as stated): a successful sample runs the cleanup pass exactly when it
\* is the 100th, 200th, ... append of the run, whatever the length of the
\* store loaded at the start and whatever earlier passes removed.
C23_PassOnEveryHundredthAppend ==
    [][built' # None => (cleaned' # None <=> nsamples' % CleanupEvery = 0)]_vars

\* C23 (amended): a successful sample runs the cleanup pass exactly when the
\* append brings the length of the store to a multiple of 100.
C23_PassOnEveryHundredthLength ==
    [][built' # None =>
          (cleaned' # None <=> (Len(measurements) + 1) % CleanupEvery = 0)]_vars

\* A pass on the 102nd append of a run, after an earlier pass had removed
\* samples.
C23_Witness ==
    /\ cleaned # None
    /\ nsamples > CleanupEvery /\ nsamples % CleanupEvery # 0
    /\ Len(measurements) <= CleanupEvery

\* C27: no successful sample is more than the 100th since the last cleanup
\* pass (or the start), the 100th runs the pass, and a pass over a store in
\* time order leaves no Measurement older than its cutoff: a head that has
\* expired is gone after at most 100 further samples.
C27_PassWithinHundredAppends ==
    [][built' # None =>
          /\ sinceCleanup < CleanupEvery
          /\ sinceCleanup = CleanupEvery - 1 => cleaned' # None
          /\ LET n == Len(measurements)
                 TimeOrdered ==
                    /\ \A i \in 1..(n - 1) :
                          measurements[i].timestamp <= measurements[i + 1].timestamp
                    /\ n > 0 => measurements[n].timestamp <= built'[1].timestamp
             IN  (cleaned' # None /\ TimeOrdered) =>
                    \A i \in 1..Len(measurements') :
                        measurements'[i].timestamp >= cleaned'[1]]_vars

\* 99 samples appended since a pass that evicted expired samples: the next
\* one runs the pass.
C27_Witness ==
    /\ sinceCleanup = CleanupEvery - 1
    /\ nsamples > CleanupEvery
    /\ Len(measurements) = CleanupEvery - 1

\* C24: the rate stored in a sample and the rate behind the ETA it returns
\* are those of the ten newest Measurements alone: the estimate on the store
\* equals the estimate on its last ten, so stores that agree on their last
\* ten yield the same rate whatever lies before.
C24_OnlyTheTenNewestCount ==
    [][built' # None =>
          LET Newest(ms) == SubSeq(ms, Len(ms) - Min(Len(ms), WindowSize) + 1, Len(ms))
          IN  /\ built'[1].discharge_rate = estimate_discharge_rate(Newest(measurements))
              /\ estimate_discharge_rate(measurements')
                    = estimate_discharge_rate(Newest(measurements'))
              /\ result'[1].eta = calculate_eta(Newest(measurements'), result'[1].percentage,
                                                result'[1].is_charging)]_vars

\* A sample on a store of twelve whose two oldest Measurements are a
\* discharge of 20 % in an hour and whose ten newest are charging: the rate
\* stored is 0.
C24_Witness ==
    /\ built # None /\ built[1].discharge_rate = 0
    /\ Len(measurements) = WindowSize + 3
    /\ ~measurements[2].is_charging
    /\ measurements[1].timestamp < measurements[2].timestamp
    /\ measurements[1].percentage > measurements[2].percentage

\* The whole part of percentage / (rate / 100) * 60, computed exactly.
eta_minutes_exact(percentage, rate) == (percentage * 6000) \div rate

\* C25 (as stated): discharging with a rate above 0, the minutes are the
\* whole part of percentage * 6000 / rate computed exactly; the ETA is
\* "< 1 min" when they are below 1 (so at 0 %), "{h}h {m}m" with h = minutes
\* div 60 and m = minutes mod 60 when they are 60 or more, "{m}m" otherwise.
C25_MinutesAreExact ==
    [][(built' # None /\ ~result'[1].is_charging
          /\ estimate_discharge_rate(measurements') > 0) =>
         LET minutes == eta_minutes_exact(result'[1].percentage,
                                          estimate_discharge_rate(measurements'))
         IN  result'[1].eta =
                IF minutes < 1 THEN Eta("< 1 min", 0, 0, "")
                ELSE IF minutes >= 60 THEN Eta("{}h {}m", minutes \div 60, minutes % 60, "")
                ELSE Eta("{}m", 0, minutes, "")]_vars

\* C26: a save whose write succeeded leaves in the file the serialisation of
\* the whole current store and nothing of what the file held before, be the
\* store empty or shorter than the snapshot it replaces.
C26_SaveReplacesTheSnapshot ==
    [][wrote' = Some("ok") => historyFile' = to_string(measurements')]_vars

\* A successful save of a store that a cleanup pass has left shorter than
\* the snapshot loaded at the start.
C26_Witness ==
    /\ lastOp = "save" /\ wrote = Some("ok")
    /\ nsamples = 1 /\ Len(measurements) < CleanupEvery - 2
    /\ historyFile = to_string(measurements)

\* C28: no frame suspended in a message box or in the popup menu holds the
\* guard on MONITOR: the details click has dropped it, the menu handlers take
\* none; so no handler that runs while one is open waits for the guard, and
\* the thread never hangs on its own mutex.
C28_NoGuardAcrossModalLoops ==
    [][/\ ~guardHeld'
       /\ phase' # "hung"
       /\ lastOp' \in {"popup", "menu", "menu_exit"} => acquired' = None
       /\ (dialogs # <<>> /\ lastOp' \in {"update", "taskbar_created", "save", "destroy"}) =>
             acquired' = Some("lock") /\ (lastOp' = "destroy" => phase' # "ready")]_vars

\* The shutdown handler has run to its end while the detail report was on
\* screen.
C28_Witness ==
    /\ lastOp = "destroy" /\ acquired = Some("lock") /\ phase = "quit"
    /\ dialogs # <<>> /\ dialogs[1].title = "Battery Details"

\* C29 (as stated): after a successful sample the store is not empty and its
\* last element is the Measurement just built, whatever the retention and
\* the length of the store: the cleanup pass does not evict it.
C29_NewSampleSurvives ==
    [][built' # None =>
          /\ measurements' # <<>>
          /\ measurements'[Len(measurements')] = built'[1]]_vars

\* C30: the rate, the ETA, the degradation estimate and the detail report
\* computed from the store are those computed from the same store with
\* every stored discharge_rate overwritten, by 0 or by any other value: none
\* of them reads the field.
C30_StoredRateIsNeverRead ==
    \A v \in {0, 12345} :
        LET other == [i \in 1..Len(measurements) |->
                         [measurements[i] EXCEPT !.discharge_rate = v]]
        IN  /\ estimate_discharge_rate(measurements) = estimate_discharge_rate(other)
            /\ calculate_annual_degradation(measurements)
                  = calculate_annual_degradation(other)
            /\ \A p \in {0, 40, 100}, c \in BOOLEAN :
                  /\ calculate_eta(measurements, p, c) = calculate_eta(other, p, c)
                  /\ get_detailed_info(measurements, p, c) = get_detailed_info(other, p, c)

\* The detail report on screen over a store that holds stored rates other
\* than 0 and yields a rate other than 0.
C30_Witness ==
    /\ dialogs # <<>> /\ dialogs[1].title = "Battery Details"
    /\ estimate_discharge_rate(measurements) # 0
    /\ \E i \in 1..Len(measurements) :
          measurements[i].discharge_rate \notin {0, estimate_discharge_rate(measurements)}

=============================================================================
